---- MODULE Spec2Model ----
(***************************************************************************)
(* Model of email_dashboard_v1.py: the interval clipping / capacity        *)
(* engine, the business-hours duration, and the period metrics and daily   *)
(* series of the email department dashboard.                               *)
(*                                                                         *)
(* Timestamps are whole seconds since 00:00:00 of day 0; a calendar date   *)
(* is the day number t \div SecPerDay.  pd.NaT / np.nan are the sentinels  *)
(* NaT / NaN, which no valid timestamp or duration equals.                 *)
(***************************************************************************)
EXTENDS Integers, Sequences, FiniteSets, TLC

\* ------------------------------------------------------------- constants

BUSINESS_START_HOUR == 7
BUSINESS_END_HOUR == 22
SecPerHour == 3600
SecPerDay == 86400

\* pd.NaT: what pd.to_datetime(..., errors="coerce") yields for a bad cell
NaT == -1
\* np.nan: an undefined number (a bad "Handle Time", an undefined duration)
NaN == -2
\* Python's None, falsy like the source's `if x`
None == <<>>

\* ---------------------------------------------------------------- bounds

\* calendar days 0..MaxDay carry input timestamps
MaxDay == 1

\* clock times of day that input timestamps take:
\* 00:00:00, 06:00, 07:00, 22:00, 23:00 and 23:59:59
Clock == {0, 6 * SecPerHour, 7 * SecPerHour, 22 * SecPerHour, 23 * SecPerHour, SecPerDay - 1}

Times == {d * SecPerDay + c : d \in 0..MaxDay, c \in Clock}
TimesOrNaT == Times \cup {NaT}

\* ------------------------------------------------------- pandas helpers

isna(x) == x = NaT \/ x = NaN

Max(a, b) == IF a >= b THEN a ELSE b
Min(a, b) == IF a <= b THEN a ELSE b

\* Timestamp.normalize(): midnight of the timestamp's day
normalize(t) == t - (t % SecPerDay)

\* (e - s).total_seconds()
total_seconds(s, e) == e - s

\* --------------------------------------------------------------- clip

\* a slip that would keep a zero-length or inverted result
clip_keeps_empty(start_dt, end_dt, window_start, window_end) ==
    IF isna(start_dt) \/ isna(end_dt) THEN None
    ELSE LET start_clipped == Max(start_dt, window_start)
             end_clipped == Min(end_dt, window_end)
         IN IF end_clipped >= start_clipped THEN <<start_clipped, end_clipped>> ELSE None

clip(start_dt, end_dt, window_start, window_end) ==
    IF isna(start_dt) \/ isna(end_dt) THEN None
    ELSE LET start_clipped == Max(start_dt, window_start)
             end_clipped == Min(end_dt, window_end)
         IN IF end_clipped > start_clipped THEN <<start_clipped, end_clipped>> ELSE None

\* ------------------------------------------- business_seconds_between

\* a slip that would leave Saturdays and Sundays out (day 0 is a Saturday)
IsWeekend(t) == ((t \div SecPerDay) + 5) % 7 >= 5

RECURSIVE business_loop_weekdays(_, _, _, _, _, _, _)
business_loop_weekdays(start_dt, end_dt, start_hour, end_hour, current_day, end_day, total) ==
    IF current_day <= end_day
    THEN LET window_start == current_day + start_hour * SecPerHour
             window_end == current_day + end_hour * SecPerHour
             interval_start == Max(start_dt, window_start)
             interval_end == Min(end_dt, window_end)
             add == IF interval_end > interval_start /\ ~IsWeekend(current_day)
                    THEN total_seconds(interval_start, interval_end) ELSE 0
         IN business_loop_weekdays(start_dt, end_dt, start_hour, end_hour,
                                   current_day + SecPerDay, end_day, total + add)
    ELSE total

RECURSIVE business_loop(_, _, _, _, _, _, _)
business_loop(start_dt, end_dt, start_hour, end_hour, current_day, end_day, total) ==
    IF current_day <= end_day
    THEN LET window_start == current_day + start_hour * SecPerHour
             window_end == current_day + end_hour * SecPerHour
             interval_start == Max(start_dt, window_start)
             interval_end == Min(end_dt, window_end)
             add == IF interval_end > interval_start
                    THEN total_seconds(interval_start, interval_end) ELSE 0
         IN business_loop(start_dt, end_dt, start_hour, end_hour,
                          current_day + SecPerDay, end_day, total + add)
    ELSE total

business_seconds_between(start_dt, end_dt, start_hour, end_hour) ==
    IF isna(start_dt) \/ isna(end_dt) THEN NaN
    ELSE IF end_dt <= start_dt THEN NaN
    ELSE business_loop(start_dt, end_dt, start_hour, end_hour,
                       normalize(start_dt), normalize(end_dt), 0)

\* ------------------------------------------------------- frame helpers

AVAILABLE_STATUSES == {"Available_Email_and_Web", "Available_All"}

\* a missing cell of a text column (NaN in the frame)
NA == ""

\* a float as numerator / denominator; den = 0 is what a division by zero gives
Div(a, b) == [num |-> a, den |-> b]
Zero == [num |-> 0, den |-> 1]
NaNF == [num |-> 0, den |-> 0]
FracEq(x, y) == x.den # 0 /\ y.den # 0 /\ x.num * y.den = y.num * x.den

\* pd.to_numeric(cell, errors="coerce") on the cells the feeds carry
to_numeric(cell) ==
    CASE cell = "60" -> 60
      [] cell = "120" -> 120
      [] OTHER -> NaN

\* Series.dt.date: the calendar day, NaT for NaT
date(t) == IF isna(t) THEN NaT ELSE t \div SecPerDay

\* pd.Timestamp(d) of a calendar day
Timestamp(d) == d * SecPerDay

\* a comparison with NaT is False
date_ge(d, x) == ~isna(d) /\ d >= x
date_le(d, x) == ~isna(d) /\ d <= x

\* frame[mask]: the rows whose index is in keep, in frame order
RECURSIVE Rows(_, _)
Rows(frame, keep) ==
    IF frame = <<>> THEN <<>>
    ELSE LET n == Len(frame)
             front == Rows(SubSeq(frame, 1, n - 1), keep)
         IN IF n \in keep THEN Append(front, frame[n]) ELSE front

\* Series.sum(): NaN cells are skipped
RECURSIVE nansum(_)
nansum(col) ==
    IF col = <<>> THEN 0
    ELSE (IF isna(Head(col)) THEN 0 ELSE Head(col)) + nansum(Tail(col))

\* Series.count(): the cells that are not NaN
RECURSIVE count(_)
count(col) ==
    IF col = <<>> THEN 0
    ELSE (IF isna(Head(col)) THEN 0 ELSE 1) + count(Tail(col))

\* a slip that would count a NaN cell as a 0
mean_nan_as_zero(col) ==
    IF Len(col) = 0 THEN NaNF ELSE Div(nansum(col), Len(col))

\* Series.mean(): over the cells that are not NaN; NaN when there is none
mean(col) ==
    IF count(col) = 0 THEN NaNF ELSE Div(nansum(col), count(col))

\* unique non-null values of a text column
options(frame, col) == {frame[i][col] : i \in DOMAIN frame} \ {NA}

\* ---------------------------------------------------- load & prep (97-140)

\* items: HandleSec from "Handle Time", then the casesChannel rows only
prep_items(csv_items) ==
    LET typed == [i \in DOMAIN csv_items |->
                    [CloseDT |-> csv_items[i].CloseDT,
                     HandleSec |-> to_numeric(csv_items[i].HandleTime),
                     Channel |-> csv_items[i].Channel,
                     Queue |-> csv_items[i].Queue]]
    IN Rows(typed, {i \in DOMAIN typed : typed[i].Channel = "casesChannel"})

\* a slip that would keep the presence rows of every status
prep_pres_all(csv_pres) == csv_pres

\* pres: the rows in an available status only
prep_pres(csv_pres) ==
    Rows(csv_pres, {i \in DOMAIN csv_pres : csv_pres[i].Status \in AVAILABLE_STATUSES})

\* ---------------------------------------------------- filtered data (184-204)

\* a slip that would filter by "not before start and not after end", which a
\* row without an opened date passes
email_period_keeps_nat(email, s, e, origins, priorities, milestones) ==
    Rows(email, {i \in DOMAIN email :
        /\ ~(~isna(email[i].OpenedDT) /\ date(email[i].OpenedDT) < s)
        /\ ~(~isna(email[i].OpenedDT) /\ date(email[i].OpenedDT) > e)
        /\ email[i].Origin \in origins
        /\ email[i].Priority \in priorities
        /\ email[i].Milestone \in milestones})

email_period(email, s, e, origins, priorities, milestones) ==
    Rows(email, {i \in DOMAIN email :
        /\ date_ge(date(email[i].OpenedDT), s)
        /\ date_le(date(email[i].OpenedDT), e)
        /\ email[i].Origin \in origins
        /\ email[i].Priority \in priorities
        /\ email[i].Milestone \in milestones})

items_in_period(its, s, e, queues) ==
    Rows(its, {i \in DOMAIN its :
        /\ date_ge(date(its[i].CloseDT), s)
        /\ date_le(date(its[i].CloseDT), e)
        /\ its[i].Queue \in queues})

StartTs(s) == Timestamp(s)

\* a slip that would close the window one second late
EndTs_inclusive(e) == Timestamp(e) + SecPerDay + 1

EndTs(e) == Timestamp(e) + SecPerDay

\* ---------------------------------------------------------- metrics (209-244)

Column(frame, col) == [i \in DOMAIN frame |-> frame[i][col]]

notna_sum(col) == count(col)
isna_sum(col) == Len(col) - count(col)

\* sum((e - s).total_seconds() for s, e in intervals)
RECURSIVE sum_seconds(_)
sum_seconds(intervals) ==
    IF intervals = <<>> THEN 0
    ELSE total_seconds(Head(intervals)[1], Head(intervals)[2]) + sum_seconds(Tail(intervals))

\* [clip(s, e, ws, we) for s, e in zip(StartDT, EndDT)], then [x for x in .. if x]
clipped_intervals(pr, ws, we) ==
    LET iv == [i \in DOMAIN pr |-> clip(pr[i].StartDT, pr[i].EndDT, ws, we)]
    IN Rows(iv, {i \in DOMAIN iv : iv[i] # None})

\* a slip that would divide whenever the capacity is not negative
utilisation_unguarded(total_handle_sec, available_sec) ==
    IF available_sec >= 0 THEN Div(total_handle_sec, available_sec) ELSE Zero

utilisation(total_handle_sec, available_sec) ==
    IF available_sec > 0 THEN Div(total_handle_sec, available_sec) ELSE Zero

response_times(completed) ==
    [i \in DOMAIN completed |->
        business_seconds_between(completed[i].OpenedDT, completed[i].CompletedDT,
                                 BUSINESS_START_HOUR, BUSINESS_END_HOUR)]

AgingLabels == <<"0-4h", "4-24h", "1-3d", "3d+">>

\* pd.cut(sec / 3600, bins=[0, 4, 24, 72, inf], right=False); NaN stays NaN
aging_bucket(sec) ==
    IF isna(sec) THEN NA
    ELSE IF sec < 4 * SecPerHour THEN "0-4h"
    ELSE IF sec < 24 * SecPerHour THEN "4-24h"
    ELSE IF sec < 72 * SecPerHour THEN "1-3d"
    ELSE "3d+"

\* value_counts().reindex(labels, fill_value=0).reset_index()
aging_summary(labels, secs) ==
    [k \in DOMAIN labels |->
        [Bucket |-> labels[k],
         Count |-> Cardinality({i \in DOMAIN secs : aging_bucket(secs[i]) = labels[k]})]]

\* ------------------------------------------------------ daily series (261-285)

\* a slip that would let each day's window run one second into the next day
hours_for_day_overlapping(pr, day_ts) ==
    LET ds == normalize(day_ts)
        de == ds + SecPerDay + 1
    IN Div(sum_seconds(clipped_intervals(pr, ds, de)), SecPerHour)

hours_for_day(pr, day_ts) ==
    LET ds == normalize(day_ts)
        de == ds + SecPerDay
    IN Div(sum_seconds(clipped_intervals(pr, ds, de)), SecPerHour)

\* groupby(col).size(): the days that occur, each with its number of rows
group_days(frame, col) == {date(frame[i][col]) : i \in DOMAIN frame} \ {NaT}
group_size(frame, col, d) == Cardinality({i \in DOMAIN frame : date(frame[i][col]) = d})

\* an ascending sequence of the members of a set of integers
RECURSIVE sorted(_)
sorted(S) ==
    IF S = {} THEN <<>>
    ELSE LET lo == CHOOSE x \in S : \A y \in S : x <= y
         IN <<lo>> \o sorted(S \ {lo})

\* a slip that would merge with how="inner"
daily_merge_inner(email_p, items_p, pr) ==
    LET days == group_days(email_p, "OpenedDT") \cap group_days(items_p, "CloseDT")
        order == sorted(days)
    IN [k \in DOMAIN order |->
          [Date |-> Timestamp(order[k]),
           Emails_Received |-> group_size(email_p, "OpenedDT", order[k]),
           Items_Handled |-> group_size(items_p, "CloseDT", order[k]),
           Available_Hours |-> hours_for_day(pr, Timestamp(order[k]))]]

\* daily_received outer-merged with daily_handled, fillna(0), Available_Hours
\* per row, sorted by Date
daily_merge(email_p, items_p, pr) ==
    LET days == group_days(email_p, "OpenedDT") \cup group_days(items_p, "CloseDT")
        order == sorted(days)
    IN [k \in DOMAIN order |->
          [Date |-> Timestamp(order[k]),
           Emails_Received |-> group_size(email_p, "OpenedDT", order[k]),
           Items_Handled |-> group_size(items_p, "CloseDT", order[k]),
           Available_Hours |-> hours_for_day(pr, Timestamp(order[k]))]]

\* ------------------------------------------------------------ variables

VARIABLES
    fn,         \* the function a call harness applies, "run" in a dashboard run
    args,       \* the call's arguments
    ret,        \* the call's result
    called,     \* whether the call has returned
    csv,        \* the loaded files: [email_rec, items, pres], typed rows
    controls,   \* the user's choices: [start, end, deselect]
    pc,         \* the script's position: load, metrics, display, done, error
    error,      \* the exception that ended the run, "" if none
    email_rec, items, pres,
    selected,   \* [queues, origins, priorities, milestones]
    email_rec_period, items_period, start_ts, end_ts,
    total_received, total_handled, completed_emails, avg_art, avg_aht,
    available_sec, total_handle_sec, util,
    email_invalid_open, email_invalid_complete, items_invalid_close,
    aging_labels, closed_aging_summary,
    daily, sla_chart

harness == <<fn, args, ret, called>>
inputs == <<csv, controls>>
frames == <<email_rec, items, pres, selected, email_rec_period, items_period, start_ts, end_ts>>
metrics == <<total_received, total_handled, completed_emails, avg_art, avg_aht,
             available_sec, total_handle_sec, util,
             email_invalid_open, email_invalid_complete, items_invalid_close,
             aging_labels, closed_aging_summary>>
display == <<daily, sla_chart>>
run == <<inputs, pc, error, frames, metrics, display>>

vars == <<harness, run>>

\* the run's variables before anything is computed
Blank ==
    /\ error = ""
    /\ email_rec = <<>> /\ items = <<>> /\ pres = <<>>
    /\ selected = [queues |-> {}, origins |-> {}, priorities |-> {}, milestones |-> {}]
    /\ email_rec_period = <<>> /\ items_period = <<>>
    /\ start_ts = 0 /\ end_ts = 0
    /\ total_received = 0 /\ total_handled = 0
    /\ completed_emails = <<>>
    /\ avg_art = Zero /\ avg_aht = Zero
    /\ available_sec = 0 /\ total_handle_sec = 0 /\ util = Zero
    /\ email_invalid_open = 0 /\ email_invalid_complete = 0 /\ items_invalid_close = 0
    /\ aging_labels = None /\ closed_aging_summary = <<>>
    /\ daily = <<>> /\ sla_chart = <<>>

\* no dashboard run: the state of the call harnesses
NoRun ==
    /\ csv = [email_rec |-> <<>>, items |-> <<>>, pres |-> <<>>]
    /\ controls = [start |-> 0, end |-> 0,
                   deselect |-> [queues |-> {}, origins |-> {}, priorities |-> {}, milestones |-> {}]]
    /\ pc = "idle"
    /\ Blank

\* ------------------------------------------------- SpecClip: clip calls

InitClip ==
    /\ fn = "clip"
    /\ \E s \in TimesOrNaT, e \in TimesOrNaT, ws \in Times, we \in Times :
          args = [start_dt |-> s, end_dt |-> e, window_start |-> ws, window_end |-> we]
    /\ ret = None
    /\ called = FALSE
    /\ NoRun

ClipCall ==
    /\ fn = "clip"
    /\ ~called
    /\ ret' = clip(args.start_dt, args.end_dt, args.window_start, args.window_end)
    /\ called' = TRUE
    /\ UNCHANGED <<fn, args, run>>

NextClip == ClipCall

SpecClip == InitClip /\ [][NextClip]_vars

\* the sample instant after t, or t itself when t is the last one
GridNext(t) ==
    LET later == {u \in Times : u > t}
    IN IF later = {} THEN t ELSE CHOOSE u \in later : \A v \in later : u <= v

\* the total length of the grid cells [t, GridNext(t)), t in S, that lie in
\* both [s,e) and [ws,we)
RECURSIVE MeasureCells(_, _, _, _, _)
MeasureCells(S, s, e, ws, we) ==
    IF S = {} THEN 0
    ELSE LET t == CHOOSE y \in S : TRUE
             cell == IF s <= t /\ GridNext(t) <= e /\ ws <= t /\ GridNext(t) <= we
                     THEN GridNext(t) - t ELSE 0
         IN cell + MeasureCells(S \ {t}, s, e, ws, we)

\* the length of [s,e) /\ [ws,we), measured cell by cell on the sample grid
MeasureOverlap(s, e, ws, we) == MeasureCells(Times, s, e, ws, we)

\* no instant lies in both [s,e) and [ws,we)
EmptyIntersection(s, e, ws, we) ==
    ~ \E t \in Times : s <= t /\ t < e /\ ws <= t /\ t < we

\* C1: clip returns None when an endpoint is NaT or [s,e) and [ws,we) share
\* no instant; otherwise it returns exactly (max(s,ws), min(e,we)), which lies
\* inside the interval and inside the window and is as long as their overlap.
C1_ClipContract ==
    (fn = "clip" /\ called) =>
        LET s == args.start_dt
            e == args.end_dt
            ws == args.window_start
            we == args.window_end
        IN IF isna(s) \/ isna(e) THEN ret = None
           ELSE IF EmptyIntersection(s, e, ws, we) THEN ret = None
           ELSE /\ ret = <<Max(s, ws), Min(e, we)>>
                /\ s <= ret[1] /\ ret[2] <= e
                /\ ws <= ret[1] /\ ret[2] <= we
                /\ ret[1] < ret[2]
                /\ total_seconds(ret[1], ret[2]) = MeasureOverlap(s, e, ws, we)

\* 23:00 of day 0 to 06:00 of day 1, clipped to day 0: (23:00, midnight), 3600 s
C1_Witness ==
    /\ fn = "clip" /\ called
    /\ args = [start_dt |-> 23 * SecPerHour, end_dt |-> SecPerDay + 6 * SecPerHour,
               window_start |-> 0, window_end |-> SecPerDay]
    /\ ret = <<23 * SecPerHour, SecPerDay>>
    /\ total_seconds(ret[1], ret[2]) = 3600

\* ------------------------- SpecBusiness: business_seconds_between calls

\* (start_hour, end_hour) pairs: the defaults, the whole day, office hours,
\* and an inverted pair whose window is empty
HourPairs == {<<BUSINESS_START_HOUR, BUSINESS_END_HOUR>>, <<0, 24>>, <<9, 17>>, <<22, 7>>}

InitBusiness ==
    /\ fn = "business_seconds_between"
    /\ \E s \in TimesOrNaT, e \in TimesOrNaT, h \in HourPairs :
          args = [start_dt |-> s, end_dt |-> e, start_hour |-> h[1], end_hour |-> h[2]]
    /\ ret = None
    /\ called = FALSE
    /\ NoRun

BusinessCall ==
    /\ fn = "business_seconds_between"
    /\ ~called
    /\ ret' = business_seconds_between(args.start_dt, args.end_dt, args.start_hour, args.end_hour)
    /\ called' = TRUE
    /\ UNCHANGED <<fn, args, run>>

NextBusiness == BusinessCall

SpecBusiness == InitBusiness /\ [][NextBusiness]_vars

\* seconds of [0, x) that fall in some day's [sh:00, eh:00)
BusinessBefore(x, sh, eh) ==
    LET width == Max(0, eh - sh) * SecPerHour
        into == (x % SecPerDay) - sh * SecPerHour
    IN (x \div SecPerDay) * width + Min(Max(into, 0), width)

\* C4: business_seconds_between is NaN when an endpoint is NaT or end <= start;
\* otherwise it is the number of seconds of [start, end) inside the daily
\* [start_hour:00, end_hour:00) windows of the days start..end, every day of the
\* week alike (day 0 is a Saturday, day 1 a Sunday).
C4_BusinessSeconds ==
    (fn = "business_seconds_between" /\ called) =>
        LET s == args.start_dt
            e == args.end_dt
        IN IF isna(s) \/ isna(e) THEN ret = NaN
           ELSE IF e <= s THEN ret = NaN
           ELSE ret = BusinessBefore(e, args.start_hour, args.end_hour)
                      - BusinessBefore(s, args.start_hour, args.end_hour)

\* Saturday 06:00 to Saturday 23:00 with the 07:00-22:00 window: 15 hours
C4_Witness ==
    /\ fn = "business_seconds_between" /\ called
    /\ args = [start_dt |-> 6 * SecPerHour, end_dt |-> 23 * SecPerHour,
               start_hour |-> 7, end_hour |-> 22]
    /\ IsWeekend(args.start_dt)
    /\ ret = 15 * 3600

\* ------------------------------------------------------ the dashboard run

NoDeselect == [queues |-> {}, origins |-> {}, priorities |-> {}, milestones |-> {}]

\* the frames of up to n rows drawn from a set of rows
FramesUpTo(RowSet, n) == UNION {[1..k -> RowSet] : k \in 0..n}

\* a run over loaded files and a chosen range, start <= end as the date picker
\* returns it
InitRun(Csvs, Deselects) ==
    /\ fn = "run" /\ args = <<>> /\ ret = None /\ called = FALSE
    /\ csv \in Csvs
    /\ \E s \in 0..MaxDay, e \in 0..MaxDay, d \in Deselects :
          /\ s <= e
          /\ controls = [start |-> s, end |-> e, deselect |-> d]
    /\ pc = "load"
    /\ Blank

\* lines 97-204: typed columns, the channel and status filters, the controls,
\* the period frames and the timestamp window
Prepare ==
    /\ pc = "load"
    /\ LET its == prep_items(csv.items)
           sel == [queues |-> options(its, "Queue") \ controls.deselect.queues,
                   origins |-> options(csv.email_rec, "Origin") \ controls.deselect.origins,
                   priorities |-> options(csv.email_rec, "Priority") \ controls.deselect.priorities,
                   milestones |-> options(csv.email_rec, "Milestone") \ controls.deselect.milestones]
       IN /\ email_rec' = csv.email_rec
          /\ items' = its
          /\ pres' = prep_pres(csv.pres)
          /\ selected' = sel
          /\ email_rec_period' = email_period(csv.email_rec, controls.start, controls.end,
                                              sel.origins, sel.priorities, sel.milestones)
          /\ items_period' = items_in_period(its, controls.start, controls.end, sel.queues)
    /\ start_ts' = StartTs(controls.start)
    /\ end_ts' = EndTs(controls.end)
    /\ pc' = "metrics"
    /\ UNCHANGED <<harness, inputs, error, metrics, display>>

\* lines 209-244: the headline metrics and the response-time buckets.  The
\* else branch of line 243 reads aging_labels, which only the if branch of
\* line 236 binds: with no completed email the run ends there in a NameError.
Metrics ==
    /\ pc = "metrics"
    /\ LET completed == Rows(email_rec_period,
                             {i \in DOMAIN email_rec_period :
                                 ~isna(email_rec_period[i].CompletedDT)})
           secs == response_times(completed)
           avail == sum_seconds(clipped_intervals(pres, start_ts, end_ts))
           handle == nansum(Column(items_period, "HandleSec"))
       IN /\ total_received' = notna_sum(Column(email_rec_period, "OpenedDT"))
          /\ total_handled' = notna_sum(Column(items_period, "CloseDT"))
          /\ completed_emails' = [i \in DOMAIN completed |->
                                    [OpenedDT |-> completed[i].OpenedDT,
                                     CompletedDT |-> completed[i].CompletedDT,
                                     ResponseTimeBusinessSec |-> secs[i]]]
          /\ avg_art' = IF Len(completed) > 0 THEN mean(secs) ELSE Zero
          /\ avg_aht' = IF Len(items_period) > 0
                        THEN mean(Column(items_period, "HandleSec")) ELSE Zero
          /\ available_sec' = avail
          /\ total_handle_sec' = handle
          /\ util' = utilisation(handle, avail)
          /\ email_invalid_open' = isna_sum(Column(email_rec_period, "OpenedDT"))
          /\ email_invalid_complete' = isna_sum(Column(email_rec_period, "CompletedDT"))
          /\ items_invalid_close' = isna_sum(Column(items_period, "CloseDT"))
          /\ IF Len(completed) > 0
             THEN /\ aging_labels' = AgingLabels
                  /\ closed_aging_summary' = aging_summary(AgingLabels, secs)
                  /\ pc' = "display"
                  /\ error' = ""
             ELSE /\ aging_labels' = None
                  /\ closed_aging_summary' = <<>>
                  /\ pc' = "error"
                  /\ error' = "NameError"
    /\ UNCHANGED <<harness, inputs, frames, display>>

\* lines 249-480: the daily series and the charts; the SLA chart sorts its
\* buckets by aging_labels
Display ==
    /\ pc = "display"
    /\ daily' = daily_merge(email_rec_period, items_period, pres)
    /\ IF aging_labels = None
       THEN /\ sla_chart' = <<>>
            /\ pc' = "error"
            /\ error' = "NameError"
       ELSE /\ sla_chart' = [data |-> closed_aging_summary, sort |-> aging_labels]
            /\ pc' = "done"
            /\ error' = ""
    /\ UNCHANGED <<harness, inputs, frames, metrics>>

Next == Prepare \/ Metrics \/ Display

\* ------------------------------------------------------------ the feeds

\* the first and the last second of each day: 00:00:00 and 23:59:59
EventTimes == {Timestamp(d) + c : d \in 0..MaxDay, c \in {0, SecPerDay - 1}}

email(opened, completed, origin, priority) ==
    [OpenedDT |-> opened, CompletedDT |-> completed,
     Origin |-> origin, Priority |-> priority, Milestone |-> "First Response"]

item(closed, handle, channel, queue) ==
    [CloseDT |-> closed, HandleTime |-> handle, Channel |-> channel, Queue |-> queue]

presence(status, s, e) == [Status |-> status, StartDT |-> s, EndDT |-> e]

Csv(e, i, p) == [email_rec |-> e, items |-> i, pres |-> p]

\* one answered email, one handled item and one available day: a run that
\* reaches its end
CompleteRun ==
    Csv(<<email(0, SecPerHour, "Email", "High")>>,
        <<item(0, "60", "casesChannel", "Q1")>>,
        <<presence("Available_All", 0, SecPerDay)>>)

\* the most rows a feed carries
MaxEmails == 2
MaxItems == 3
MaxPres == 2
\* the most rows the received and the handled feed carry together
MaxRows == 3

\* --- SpecEmail: the received feed varies

EmailRows ==
    {email(t, c, "Email", "High") : t \in EventTimes, c \in {NaT}}
    \cup {email(t, t + SecPerHour, "Email", "High") : t \in EventTimes}
    \cup {email(NaT, SecPerHour, "Email", "High"),
          email(0, 0, "Email", "High"),
          email(0, 3 * SecPerDay + 12 * SecPerHour, "Email", "High"),
          email(0, SecPerHour, "Web", "High"),
          email(0, SecPerHour, "Email", NA)}

InitEmail ==
    InitRun({Csv(e, <<>>, <<>>) : e \in FramesUpTo(EmailRows, MaxEmails)} \cup {CompleteRun},
            {NoDeselect, [NoDeselect EXCEPT !.origins = {"Web"}]})

SpecEmail == InitEmail /\ [][Next]_vars

\* --- SpecItems: the handled feed varies, over a few presence feeds

ItemRows ==
    {item(SecPerDay - 1, h, "casesChannel", "Q1") : h \in {"60", "120", "", "n/a"}}
    \cup {item(NaT, "60", "casesChannel", "Q1"),
          item(SecPerDay - 1, "60", "chatChannel", "Q1"),
          item(SecPerDay - 1, "60", "casesChannel", "Q2")}

\* no record; a record in no available status; an available record after
\* day 0; an available record over the whole of day 0
FewPres ==
    {<<>>,
     <<presence("Busy", 0, SecPerDay)>>,
     <<presence("Available_All", Timestamp(MaxDay) + 6 * SecPerHour, Timestamp(MaxDay) + 7 * SecPerHour)>>,
     <<presence("Available_Email_and_Web", 0, SecPerDay)>>}

InitItems ==
    InitRun({Csv(<<>>, i, p) : i \in FramesUpTo(ItemRows, MaxItems), p \in FewPres}
                \cup {CompleteRun},
            {NoDeselect, [NoDeselect EXCEPT !.queues = {"Q2"}]})

SpecItems == InitItems /\ [][Next]_vars

\* --- SpecPres: the presence feed varies

PresTimes == EventTimes \cup {Timestamp(MaxDay + 1)}

PresRows ==
    {presence("Available_All", iv[1], iv[2]) : iv \in {q \in PresTimes \X PresTimes : q[1] < q[2]}}
    \cup {presence("Available_All", NaT, SecPerDay),
          presence("Available_All", 0, NaT),
          presence("Available_All", NaT, NaT),
          presence("Available_All", SecPerDay, 0),
          presence("Available_All", SecPerDay - 1, SecPerDay - 1),
          presence("Available_Email_and_Web", 0, SecPerDay),
          presence("Busy", 0, SecPerDay)}

InitPres ==
    InitRun({Csv(<<>>, <<>>, p) : p \in FramesUpTo(PresRows, MaxPres)} \cup {CompleteRun},
            {NoDeselect})

SpecPres == InitPres /\ [][Next]_vars

\* --- Spec: the received and the handled feed vary together

MergeEmailRows == {email(t, t + SecPerHour, "Email", "High") : t \in EventTimes}
MergeItemRows == {item(t, "60", "casesChannel", "Q1") : t \in EventTimes}

\* nobody available; somebody available throughout; somebody available for
\* the last second of day 0; somebody available for the first second of day 1
MergePres ==
    {<<>>,
     <<presence("Available_All", 0, Timestamp(MaxDay + 1))>>,
     <<presence("Available_All", SecPerDay - 1, SecPerDay)>>,
     <<presence("Available_All", SecPerDay, SecPerDay + 1)>>}

MergeCsvs ==
    UNION {{Csv(e, i, p) : e \in [1..n[1] -> MergeEmailRows],
                           i \in [1..n[2] -> MergeItemRows],
                           p \in MergePres} :
           n \in {m \in (0..MaxRows) \X (0..MaxRows) : m[1] + m[2] <= MaxRows}}

Init == InitRun(MergeCsvs, {NoDeselect})

Spec == Init /\ [][Next]_vars

\* ------------------------------------------------------------ properties

\* the sum of f[x] over the x in S
RECURSIVE SumOver(_, _)
SumOver(f, S) ==
    IF S = {} THEN 0
    ELSE LET x == CHOOSE y \in S : TRUE IN f[x] + SumOver(f, S \ {x})

Prepared == pc \in {"metrics", "display", "done", "error"}
Measured == pc \in {"display", "done", "error"}

\* the days of the inclusive reporting range
RangeDays == controls.start .. controls.end

\* C2: the per-day available hours of the days start..end add up to the
\* available seconds of the whole range: no second is counted in two day
\* buckets and none is lost at a midnight.
C2_DaysAddUp ==
    Measured =>
        LET hours == [d \in RangeDays |-> hours_for_day(pres, Timestamp(d))]
            secs == [d \in RangeDays |-> hours[d].num]
        IN /\ \A d \in RangeDays : hours[d].den = SecPerHour
           /\ SumOver(secs, RangeDays) = available_sec

\* a two-day range, with a presence record that runs across its midnight
C2_Witness ==
    /\ Measured
    /\ controls.start < controls.end
    /\ \E i \in DOMAIN pres :
          /\ ~isna(pres[i].StartDT) /\ ~isna(pres[i].EndDT)
          /\ pres[i].StartDT < Timestamp(controls.start + 1)
          /\ pres[i].EndDT > Timestamp(controls.start + 1)
    /\ hours_for_day(pres, Timestamp(controls.start)).num > 0
    /\ hours_for_day(pres, Timestamp(controls.start + 1)).num > 0
    /\ available_sec > 0

\* the first instant after the inclusive range: 00:00:00 of the day after end
Boundary == Timestamp(controls.end + 1)

\* the part of [s, e) inside [lo, hi), as a difference of clamped endpoints
Clamp(x, lo, hi) == Min(Max(x, lo), hi)
SecondsInside(s, e, lo, hi) ==
    IF isna(s) \/ isna(e) THEN 0
    ELSE IF e <= s THEN 0
    ELSE Clamp(e, lo, hi) - Clamp(s, lo, hi)

\* the loaded rows that the other filters keep
EmailKept(i) ==
    /\ csv.email_rec[i].Origin \in selected.origins
    /\ csv.email_rec[i].Priority \in selected.priorities
    /\ csv.email_rec[i].Milestone \in selected.milestones
ItemKept(i) ==
    /\ csv.items[i].Channel = "casesChannel"
    /\ csv.items[i].Queue \in selected.queues
InWindow(t) == ~isna(t) /\ Timestamp(controls.start) <= t /\ t < Boundary

\* C3: the inclusive range start..end acts as the half-open window
\* [start 00:00, end + 1 day 00:00): the received rows (by opened time), the
\* handled rows (by close time) and the available seconds of the period are
\* those inside it, so 23:59:59 of end counts and 00:00:00 of the next day
\* does not.
C3_HalfOpenWindow ==
    /\ Prepared =>
          /\ start_ts = Timestamp(controls.start)
          /\ end_ts = Boundary
          /\ \A i \in DOMAIN email_rec_period : InWindow(email_rec_period[i].OpenedDT)
          /\ \A i \in DOMAIN items_period : InWindow(items_period[i].CloseDT)
          /\ Len(email_rec_period) =
                Cardinality({i \in DOMAIN csv.email_rec :
                                EmailKept(i) /\ InWindow(csv.email_rec[i].OpenedDT)})
          /\ Len(items_period) =
                Cardinality({i \in DOMAIN csv.items :
                                ItemKept(i) /\ InWindow(csv.items[i].CloseDT)})
    /\ Measured =>
          /\ total_received = Len(email_rec_period)
          /\ total_handled = Len(items_period)
          /\ available_sec =
                SumOver([i \in DOMAIN pres |->
                            SecondsInside(pres[i].StartDT, pres[i].EndDT,
                                          Timestamp(controls.start), Boundary)],
                        DOMAIN pres)

\* range day 0..day 0: an email opened at 23:59:59 is received and one opened
\* at the next 00:00:00 is not, an item closed at that 00:00:00 is not
\* handled, and a presence record over the last second of day 0 gives 1 s
C3_Witness ==
    /\ Measured
    /\ controls.end = 0
    /\ \E i \in DOMAIN csv.email_rec : csv.email_rec[i].OpenedDT = Boundary
    /\ \E i \in DOMAIN csv.email_rec : csv.email_rec[i].OpenedDT = Boundary - 1
    /\ \E i \in DOMAIN csv.items : csv.items[i].CloseDT = Boundary
    /\ total_received = 1
    /\ total_handled = 0
    /\ csv.pres = <<presence("Available_All", Boundary - 1, Boundary)>>
    /\ available_sec = 1

\* C5: the daily series has one row for every calendar date of the range
\* start..end, in ascending order, days without events included.
C5_EveryDayOfRange ==
    pc = "done" =>
        /\ Len(daily) = controls.end - controls.start + 1
        /\ \A k \in DOMAIN daily : daily[k].Date = Timestamp(controls.start + k - 1)

\* the days on which a period frame has rows, by a timestamp column
DaysOf(frame, col) == {frame[i][col] \div SecPerDay : i \in DOMAIN frame}
RowsOn(frame, col, d) ==
    Cardinality({i \in DOMAIN frame : Timestamp(d) <= frame[i][col]
                                      /\ frame[i][col] < Timestamp(d + 1)})

\* C6: the merged daily series has exactly the dates that occur in the
\* received feed (opened date) or in the handled feed (close date) within the
\* period, once each and ascending; each count is that feed's number of
\* in-period rows on the date, 0 where the feed has none.  (The series exists
\* in the runs that get past line 244.)
C6_OuterJoin ==
    pc = "done" =>
        /\ {daily[k].Date : k \in DOMAIN daily} =
              {Timestamp(d) : d \in DaysOf(email_rec_period, "OpenedDT")
                                    \cup DaysOf(items_period, "CloseDT")}
        /\ \A k \in DOMAIN daily :
              /\ daily[k].Emails_Received =
                    RowsOn(email_rec_period, "OpenedDT", daily[k].Date \div SecPerDay)
              /\ daily[k].Items_Handled =
                    RowsOn(items_period, "CloseDT", daily[k].Date \div SecPerDay)
        /\ \A j, k \in DOMAIN daily : j < k => daily[j].Date < daily[k].Date

\* one date has received emails and no handled item, another the reverse
C6_Witness ==
    /\ pc = "done"
    /\ \E j, k \in DOMAIN daily :
          /\ daily[j].Emails_Received > 0 /\ daily[j].Items_Handled = 0
          /\ daily[k].Emails_Received = 0 /\ daily[k].Items_Handled > 0

NoCompletedInPeriod ==
    \A i \in DOMAIN email_rec_period : isna(email_rec_period[i].CompletedDT)

\* C7: with no completed email in the period the metrics stage still ends
\* without an exception, with average response time 0 and the four buckets
\* 0-4h, 4-24h, 1-3d, 3d+ each at count 0, and the labels are bound for the
\* SLA chart.
C7_EmptySentinels ==
    (Measured /\ NoCompletedInPeriod) =>
        /\ pc # "error"
        /\ error = ""
        /\ avg_art = Zero
        /\ closed_aging_summary =
              [k \in 1..4 |-> [Bucket |-> AgingLabels[k], Count |-> 0]]
        /\ aging_labels = AgingLabels

\* the in-period handled items whose handle time is a number
Numeric == {i \in DOMAIN items_period : ~isna(items_period[i].HandleSec)}
HandleSecs == [i \in DOMAIN items_period |-> items_period[i].HandleSec]

\* C8: the average handle time is the sum of the numeric handle times of the
\* in-period items divided by their number; an item whose handle time is
\* missing or not a number is in neither, and the total handle time leaves
\* it out as well.
C8_MeanSkipsMissing ==
    Measured =>
        /\ total_handle_sec = SumOver(HandleSecs, Numeric)
        /\ Numeric # {} =>
              /\ avg_aht.den # 0
              /\ avg_aht.num * Cardinality(Numeric) = avg_aht.den * SumOver(HandleSecs, Numeric)
        /\ (Numeric = {} /\ items_period # <<>>) => avg_aht = NaNF

\* handle times 60, missing, 120: the average is 90 and the total 180
C8_Witness ==
    /\ Measured
    /\ Len(items_period) = 3
    /\ [i \in 1..3 |-> csv.items[i].HandleTime] = <<"60", "", "120">>
    /\ HandleSecs = <<60, NaN, 120>>
    /\ FracEq(avg_aht, Div(90, 1))
    /\ total_handle_sec = 180

\* no presence record is in an available status and overlaps the window
NobodyAvailable ==
    \A i \in DOMAIN csv.pres :
        \/ csv.pres[i].Status \notin AVAILABLE_STATUSES
        \/ SecondsInside(csv.pres[i].StartDT, csv.pres[i].EndDT,
                         Timestamp(controls.start), Boundary) = 0

\* C9: utilisation is total handle seconds over available seconds when the
\* available seconds are positive, and the sentinel 0 when they are 0 (no
\* presence record, none available, none inside the window); no division by
\* zero is ever evaluated.
C9_UtilisationGuard ==
    Measured =>
        /\ util.den # 0
        /\ available_sec >= 0
        /\ available_sec > 0 => FracEq(util, Div(total_handle_sec, available_sec))
        /\ available_sec = 0 => util = Zero
        /\ NobodyAvailable <=> available_sec = 0

\* handled work, a presence record, and nobody available in the window
C9_Witness ==
    /\ Measured
    /\ total_handle_sec > 0
    /\ csv.pres # <<>>
    /\ available_sec = 0
    /\ util = Zero

\* the seconds one loaded presence record gives the window: its own clipped
\* length in an available status, else 0
OwnSeconds(r) ==
    IF r.Status \notin AVAILABLE_STATUSES THEN 0
    ELSE LET c == clip(r.StartDT, r.EndDT, Timestamp(controls.start), Boundary)
         IN IF c = None THEN 0 ELSE c[2] - c[1]

\* the loaded presence records in every order
Reorderings(frame) ==
    {[i \in DOMAIN frame |-> frame[f[i]]] : f \in Permutations(DOMAIN frame)}

\* C10: the available seconds are the sum over the loaded presence records of
\* each record's own contribution, whatever the order of the records;
\* records in other statuses give nothing and overlapping records are not
\* merged.
C10_Additive ==
    Measured =>
        /\ available_sec =
              SumOver([i \in DOMAIN csv.pres |-> OwnSeconds(csv.pres[i])], DOMAIN csv.pres)
        /\ \A q \in Reorderings(csv.pres) :
              sum_seconds(clipped_intervals(prep_pres(q), start_ts, end_ts)) = available_sec

\* two records over the same day and one in another status: twice the day
C10_Witness ==
    /\ Measured
    /\ controls.start = 0 /\ controls.end = 0
    /\ Len(csv.pres) = 2
    /\ csv.pres[1] = csv.pres[2]
    /\ csv.pres[1] = presence("Available_All", 0, SecPerDay)
    /\ available_sec = 2 * SecPerDay

\* --- SpecQuality: the received or the handled feed varies, bad dates included

\* an email without an opened date beside a dated one, and an item without a
\* close date beside a dated one
BadDatesRun ==
    Csv(<<email(NaT, SecPerHour, "Email", "High"), email(0, SecPerHour, "Email", "High")>>,
        <<item(NaT, "60", "casesChannel", "Q1"), item(SecPerDay - 1, "60", "casesChannel", "Q1")>>,
        <<>>)

InitQuality == InitEmail \/ InitItems \/ InitRun({BadDatesRun}, {NoDeselect})

SpecQuality == InitQuality /\ [][Next]_vars

\* C11: a row without a date of record never passes the period filter: every
\* row of email_rec_period has an opened timestamp and every row of
\* items_period a close timestamp, so total_received and total_handled are the
\* row counts of the two period frames and the counters email_invalid_open and
\* items_invalid_close are 0, for every feed and every range.
C11_PeriodRowsAreDated ==
    /\ Prepared =>
          /\ \A i \in DOMAIN email_rec_period : ~isna(email_rec_period[i].OpenedDT)
          /\ \A i \in DOMAIN items_period : ~isna(items_period[i].CloseDT)
    /\ Measured =>
          /\ total_received = Len(email_rec_period)
          /\ total_handled = Len(items_period)
          /\ email_invalid_open = 0
          /\ items_invalid_close = 0

\* both feeds carry a row without its date that every other filter keeps,
\* beside a dated row inside the range
C11_Witness ==
    /\ Measured
    /\ \E i \in DOMAIN csv.email_rec : isna(csv.email_rec[i].OpenedDT) /\ EmailKept(i)
    /\ \E i \in DOMAIN csv.items : isna(csv.items[i].CloseDT) /\ ItemKept(i)
    /\ Len(csv.email_rec) = 2 /\ Len(email_rec_period) = 1 /\ total_received = 1
    /\ Len(csv.items) = 2 /\ Len(items_period) = 1 /\ total_handled = 1
    /\ email_invalid_open = 0
    /\ items_invalid_close = 0

====
